---- MODULE Spec2Model ----
(***************************************************************************)
(* Separate-chaining hash table of gustavobat/trashmap.                    *)
(*                                                                         *)
(* src/src/chained.rs (Chained<K,V>) and src/src/separate_chaining.rs      *)
(* (HashMap<K,V>) hold the same algorithm line for line; they differ only  *)
(* in that HashMap's remove/get/contains_key take a borrowed key.  One     *)
(* model covers both.                                                      *)
(*                                                                         *)
(* A call runs to completion (single owner, &mut self), so each public     *)
(* method is one action.  A Rust panic unwinds out of the call before the  *)
(* method has written anything; it is recorded as the result "Panic" and   *)
(* ends the run.                                                           *)
(***************************************************************************)
EXTENDS Integers, Sequences, FiniteSets, TLC

\* ---------------------------------------------------------------- bounds
NumKeys == 3
MaxHash == 2

Keys == 1..NumKeys
\* The code never inspects a value; the two of tests::operations suffice.
Values == {10, 20}
HashVals == 0..MaxHash

\* LOAD_FACTOR = 0.75 as the fraction 3/4
LOAD_FACTOR_NUM == 3
LOAD_FACTOR_DEN == 4

VARIABLES
    buckets,   \* self.buckets: sequence of buckets, a bucket is a sequence of <<key, value>>
    len,       \* self.len
    hash,      \* the value of hasher.finish() for each key (fixed for the run)
    op,        \* the last call: [name, key, value]
    ret,       \* what the last call returned: [kind, val]
    pre,       \* the table as it was when the last call started: [buckets, len]
    last,      \* history: for each key the effect of the most recent insert/remove naming it
    inserted,  \* history: insert has been called
    distinct,  \* history: every call so far was an insert of a key not inserted before
    resized    \* history: the last call ran self.resize()

vars == <<buckets, len, hash, op, ret, pre, last, inserted, distinct, resized>>

\* ------------------------------------------------------- Option<V>, bool
None == [kind |-> "None", val |-> 0]
Some(v) == [kind |-> "Some", val |-> v]
Panic == [kind |-> "Panic", val |-> 0]
Bool(b) == [kind |-> IF b THEN "True" ELSE "False", val |-> 0]

\* ---------------------------------------------------------------- Bucket
\* Bucket::new
BucketNew == << >>

\* Bucket::push
Push(bucket, key, value) == Append(bucket, <<key, value>>)

\* bucket.iter().position(|(k, _)| k == &key): the first index holding key, 0 for None
RECURSIVE PositionFrom(_, _, _)
PositionFrom(bucket, key, i) ==
    IF i > Len(bucket) THEN 0
    ELSE IF bucket[i][1] = key THEN i
    ELSE PositionFrom(bucket, key, i + 1)

\* mutant of Position: any entry of the bucket counts as a match (the hash
\* bucket is compared, the key is not)
PositionAny(bucket, key) == IF Len(bucket) > 0 THEN 1 ELSE 0

Position(bucket, key) == PositionFrom(bucket, key, 1)

\* mutant of SwapRemove: Vec::remove, the elements after i shift down one place
SwapRemoveShift(bucket, i) ==
    SubSeq(bucket, 1, i - 1) \o SubSeq(bucket, i + 1, Len(bucket))

\* mutant of SwapRemove: pops the last element whatever i is
SwapRemovePop(bucket, i) == SubSeq(bucket, 1, Len(bucket) - 1)

\* Vec::swap_remove(i): the last element takes place i, the vector loses its last place
SwapRemove(bucket, i) ==
    LET n == Len(bucket)
        moved == [bucket EXCEPT ![i] = bucket[n]]
    IN  SubSeq(moved, 1, n - 1)

\* ----------------------------------------------------------------- table
\* is_empty
IsEmpty(l) == l = 0

\* bucket_index: hash % n_buckets, 0-based; the caller must not pass 0
BucketIndex(h, key, n_buckets) == h[key] % n_buckets

\* mutant of LoadReached: the comparison the other way round
LoadReachedBelow(l, n_buckets) == l * 4 <= n_buckets * 3

\* mutant of LoadReached: > in place of >=
LoadReachedStrict(l, n_buckets) == l * 4 > n_buckets * 3

\* len as f64 >= buckets.len() as f64 * LOAD_FACTOR; with LOAD_FACTOR = 3/4 exactly
\* representable and the operands far below 2^53 the comparison is exact
LoadReached(l, n_buckets) == l * LOAD_FACTOR_DEN >= n_buckets * LOAD_FACTOR_NUM

\* mutant of TargetSize: as many buckets as entries, the doubling forgotten
TargetSizeLen(l) == IF l = 0 THEN 1 ELSE l

\* mutant of TargetSize: the 0 => 1 arm forgotten
TargetSizeNoFloor(l) == l * 2

\* mutant of TargetSize: one more bucket than entries, not twice as many
TargetSizePlusOne(l) == l + 1

\* resize: target_size
TargetSize(l) == IF l = 0 THEN 1 ELSE l * 2

\* mutant of Drain: an entry replaces what its new bucket already holds
RECURSIVE DrainOverwrite(_, _, _, _)
DrainOverwrite(h, entries, new_buckets, target_size) ==
    IF entries = << >> THEN new_buckets
    ELSE LET e == Head(entries)
         IN  DrainOverwrite(h, Tail(entries),
                   [new_buckets EXCEPT ![(h[e[1]] % target_size) + 1] = <<e>>],
                   target_size)

\* resize: the draining loops; entries is what is left to drain, in bucket order
RECURSIVE Drain(_, _, _, _)
Drain(h, entries, new_buckets, target_size) ==
    IF entries = << >> THEN new_buckets
    ELSE LET e == Head(entries)
             bucket_index == BucketIndex(h, e[1], target_size)
         IN  Drain(h, Tail(entries),
                   [new_buckets EXCEPT ![bucket_index + 1] = Push(@, e[1], e[2])],
                   target_size)

\* the entries of all buckets, first bucket first
RECURSIVE Flatten(_)
Flatten(bs) == IF bs = << >> THEN << >> ELSE Head(bs) \o Flatten(Tail(bs))

\* mutant of Resize: the old buckets are carried over in place, not rehashed
ResizeNoRehash(h, bs, l) ==
    [i \in 1..(IF l = 0 THEN 1 ELSE l * 2) |-> IF i <= Len(bs) THEN bs[i] ELSE << >>]

\* resize: the new bucket vector (len is not touched)
Resize(h, bs, l) ==
    LET target_size == TargetSize(l)
        new_buckets == [i \in 1..target_size |-> BucketNew]
    IN  Drain(h, Flatten(bs), new_buckets, target_size)

\* insert line 59: the condition under which insert resizes first
NeedsResize(bs, l) == IsEmpty(l) \/ LoadReached(l, Len(bs))

\* mutant of InsertResult: the entry is pushed without scanning the bucket
InsertResultAlwaysPush(h, bs, l, key, value) ==
    LET b1 == IF NeedsResize(bs, l) THEN Resize(h, bs, l) ELSE bs
        bucket_index == BucketIndex(h, key, Len(b1)) + 1
    IN  [buckets |-> [b1 EXCEPT ![bucket_index] = Push(@, key, value)],
         len |-> l + 1,
         ret |-> None,
         resized |-> NeedsResize(bs, l)]

\* mutant of InsertResult: len is incremented on an overwrite too
InsertResultCountsOverwrite(h, bs, l, key, value) ==
    LET b1 == IF NeedsResize(bs, l) THEN Resize(h, bs, l) ELSE bs
        bucket_index == BucketIndex(h, key, Len(b1)) + 1
        bucket == b1[bucket_index]
        x == Position(bucket, key)
    IN  IF x > 0
        THEN [buckets |-> [b1 EXCEPT ![bucket_index][x] = <<key, value>>],
              len |-> l + 1,
              ret |-> Some(bucket[x][2]),
              resized |-> NeedsResize(bs, l)]
        ELSE [buckets |-> [b1 EXCEPT ![bucket_index] = Push(@, key, value)],
              len |-> l + 1,
              ret |-> None,
              resized |-> NeedsResize(bs, l)]

\* insert: [buckets, len, ret] from the table and the arguments; resized tells
\* whether line 60 ran
InsertResult(h, bs, l, key, value) ==
    LET b1 == IF NeedsResize(bs, l) THEN Resize(h, bs, l) ELSE bs
        n_buckets == Len(b1)
    IN  IF n_buckets = 0
        THEN [buckets |-> bs, len |-> l, ret |-> Panic, resized |-> NeedsResize(bs, l)]
        ELSE
        LET bucket_index == BucketIndex(h, key, n_buckets) + 1
            bucket == b1[bucket_index]
            x == Position(bucket, key)
        IN  IF x > 0
            THEN [buckets |-> [b1 EXCEPT ![bucket_index][x] = <<key, value>>],
                  len |-> l,
                  ret |-> Some(bucket[x][2]),
                  resized |-> NeedsResize(bs, l)]
            ELSE [buckets |-> [b1 EXCEPT ![bucket_index] = Push(@, key, value)],
                  len |-> l + 1,
                  ret |-> None,
                  resized |-> NeedsResize(bs, l)]

\* mutant of RemoveResult: the table is resized to fit after a removal
RemoveResultShrinks(h, bs, l, key) ==
    LET n_buckets == Len(bs)
    IN  IF n_buckets = 0 THEN [buckets |-> bs, len |-> l, ret |-> Panic]
        ELSE
        LET bucket_index == BucketIndex(h, key, n_buckets) + 1
            bucket == bs[bucket_index]
            i == Position(bucket, key)
        IN  IF i = 0
            THEN [buckets |-> bs, len |-> l, ret |-> None]
            ELSE [buckets |-> Resize(h, [bs EXCEPT ![bucket_index] = SwapRemove(@, i)], l - 1),
                  len |-> l - 1,
                  ret |-> Some(bucket[i][2])]

\* mutant of RemoveResult: len is not decremented
RemoveResultNoDec(h, bs, l, key) ==
    LET n_buckets == Len(bs)
    IN  IF n_buckets = 0 THEN [buckets |-> bs, len |-> l, ret |-> Panic]
        ELSE
        LET bucket_index == BucketIndex(h, key, n_buckets) + 1
            bucket == bs[bucket_index]
            i == Position(bucket, key)
        IN  IF i = 0
            THEN [buckets |-> bs, len |-> l, ret |-> None]
            ELSE [buckets |-> [bs EXCEPT ![bucket_index] = SwapRemove(@, i)],
                  len |-> l,
                  ret |-> Some(bucket[i][2])]

\* remove: [buckets, len, ret]; hash % 0 panics before anything is written
RemoveResult(h, bs, l, key) ==
    LET n_buckets == Len(bs)
    IN  IF n_buckets = 0 THEN [buckets |-> bs, len |-> l, ret |-> Panic]
        ELSE
        LET bucket_index == BucketIndex(h, key, n_buckets) + 1
            bucket == bs[bucket_index]
            i == Position(bucket, key)
        IN  IF i = 0
            THEN [buckets |-> bs, len |-> l, ret |-> None]
            ELSE [buckets |-> [bs EXCEPT ![bucket_index] = SwapRemove(@, i)],
                  len |-> l - 1,
                  ret |-> Some(bucket[i][2])]

\* get: the returned Option; hash % 0 panics
GetResult(h, bs, key) ==
    LET n_buckets == Len(bs)
    IN  IF n_buckets = 0 THEN Panic
        ELSE
        LET bucket_index == BucketIndex(h, key, n_buckets) + 1
            bucket == bs[bucket_index]
            i == Position(bucket, key)
        IN  IF i = 0 THEN None ELSE Some(bucket[i][2])

\* mutant of ContainsKeyResult: true as soon as the key's bucket holds an entry
ContainsKeyResultNonEmpty(h, bs, key) ==
    IF Len(bs) = 0 THEN Panic
    ELSE Bool(bs[BucketIndex(h, key, Len(bs)) + 1] # << >>)

\* contains_key: self.get(key).is_some()
ContainsKeyResult(h, bs, key) ==
    LET g == GetResult(h, bs, key)
    IN  IF g = Panic THEN Panic ELSE Bool(g.kind = "Some")

\* --------------------------------------------------------------- actions
Running == ret.kind # "Panic"

\* The possible outputs of DefaultHasher on the keys: any function of the key.
\* Keys are opaque apart from == and their hash, so they are numbered in the
\* order of their hash values (equal hashes allowed); every other hash
\* function is one of these with the keys renamed.
HashFunctions ==
    {h \in [Keys -> HashVals] : \A j, k \in Keys : j <= k => h[j] <= h[k]}

\* new(): no buckets, len 0
Init ==
    /\ buckets = << >>
    /\ len = 0
    /\ hash \in HashFunctions
    /\ op = [name |-> "new", key |-> 0, value |-> 0]
    /\ ret = None
    /\ pre = [buckets |-> << >>, len |-> 0]
    /\ last = [k \in Keys |-> None]
    /\ inserted = FALSE
    /\ distinct = TRUE
    /\ resized = FALSE

Insert(key, value) ==
    /\ Running
    /\ \E r \in {InsertResult(hash, buckets, len, key, value)} :
           /\ buckets' = r.buckets
           /\ len' = r.len
           /\ ret' = r.ret
           /\ resized' = r.resized
    /\ op' = [name |-> "insert", key |-> key, value |-> value]
    /\ pre' = [buckets |-> buckets, len |-> len]
    /\ last' = [last EXCEPT ![key] = Some(value)]
    /\ inserted' = TRUE
    /\ distinct' = (distinct /\ last[key] = None)
    /\ UNCHANGED hash

Remove(key) ==
    /\ Running
    /\ \E r \in {RemoveResult(hash, buckets, len, key)} :
           /\ buckets' = r.buckets
           /\ len' = r.len
           /\ ret' = r.ret
    /\ op' = [name |-> "remove", key |-> key, value |-> 0]
    /\ pre' = [buckets |-> buckets, len |-> len]
    /\ last' = [last EXCEPT ![key] = None]
    /\ distinct' = FALSE
    /\ resized' = FALSE
    /\ UNCHANGED <<hash, inserted>>

Get(key) ==
    /\ Running
    /\ ret' = GetResult(hash, buckets, key)
    /\ op' = [name |-> "get", key |-> key, value |-> 0]
    /\ pre' = [buckets |-> buckets, len |-> len]
    /\ distinct' = FALSE
    /\ resized' = FALSE
    /\ UNCHANGED <<buckets, len, hash, last, inserted>>

ContainsKey(key) ==
    /\ Running
    /\ ret' = ContainsKeyResult(hash, buckets, key)
    /\ op' = [name |-> "contains_key", key |-> key, value |-> 0]
    /\ pre' = [buckets |-> buckets, len |-> len]
    /\ distinct' = FALSE
    /\ resized' = FALSE
    /\ UNCHANGED <<buckets, len, hash, last, inserted>>

Next ==
    \/ \E key \in Keys, value \in Values : Insert(key, value)
    \/ \E key \in Keys : Remove(key)
    \/ \E key \in Keys : Get(key)
    \/ \E key \in Keys : ContainsKey(key)

Spec == Init /\ [][Next]_vars

\* ================================================================ claims
\* what the claims speak about
Capacity == Len(buckets)
PreCapacity == Len(pre.buckets)

\* the values stored under key anywhere in the table, whatever bucket holds them
StoredValues(bs, key) ==
    LET es == Flatten(bs)
    IN  {es[i][2] : i \in {j \in 1..Len(es) : es[j][1] = key}}

\* the number of entries with this key anywhere in the table
Occurrences(bs, key) ==
    LET es == Flatten(bs)
    IN  Cardinality({j \in 1..Len(es) : es[j][1] = key})

RECURSIVE SumOfBucketLens(_)
SumOfBucketLens(bs) ==
    IF bs = << >> THEN 0 ELSE Len(Head(bs)) + SumOfBucketLens(Tail(bs))

Resized == op.name = "insert" /\ NeedsResize(pre.buckets, pre.len)

\* C1: once insert has been called, get(k) is Some(v) exactly when the most
\* recent insert/remove naming k was insert(k, v), and None when k was never
\* inserted or was removed last; right after insert(k, v), get(k) is Some(v).
C1_RefinesMap ==
    inserted =>
        /\ \A k \in Keys : GetResult(hash, buckets, k) = last[k]
        /\ op.name = "insert" => GetResult(hash, buckets, op.key) = Some(op.value)

\* an insert that resized a table of two or more entries, one key absent
C1_Witness ==
    /\ Resized
    /\ pre.len >= 2
    /\ GetResult(hash, buckets, op.key) = Some(op.value)
    /\ \E k \in Keys : last[k] = None /\ GetResult(hash, buckets, k) = None

\* C2: get and contains_key on a table with no buckets return None / false.
C2_EmptyLookupAbsent ==
    (PreCapacity = 0) =>
        /\ op.name = "get" => ret = None
        /\ op.name = "contains_key" => ret = Bool(FALSE)

\* C3: remove on a table with no buckets returns None and leaves 0 buckets, len 0.
C3_EmptyRemoveAbsent ==
    (op.name = "remove" /\ PreCapacity = 0) =>
        ret = None /\ buckets = << >> /\ len = 0

\* C4: insert(k, v2) on a key stored with v1 returns Some(v1), keeps len and
\* makes get(k) Some(v2); insert of a key not stored returns None and adds 1 to len.
C4_InsertOverwriteOrAdd ==
    op.name = "insert" =>
        LET old == StoredValues(pre.buckets, op.key)
        IN  IF old # {}
            THEN /\ \A v1 \in old : ret = Some(v1)
                 /\ len = pre.len
                 /\ GetResult(hash, buckets, op.key) = Some(op.value)
            ELSE /\ ret = None
                 /\ len = pre.len + 1

\* an overwrite with a new value that resized the table
C4_Witness ==
    /\ Resized
    /\ StoredValues(pre.buckets, op.key) # {}
    /\ ret.kind = "Some"
    /\ ret.val # op.value
    /\ Capacity # PreCapacity

\* C5: remove(k) of a key stored with v returns Some(v), takes 1 from len,
\* makes get(k) None and leaves get(k') as it was for every other key.
C5_RemoveStored ==
    (op.name = "remove" /\ StoredValues(pre.buckets, op.key) # {}) =>
        /\ \A v \in StoredValues(pre.buckets, op.key) : ret = Some(v)
        /\ len = pre.len - 1
        /\ GetResult(hash, buckets, op.key) = None
        /\ \A k \in Keys \ {op.key} :
               GetResult(hash, buckets, k) = GetResult(hash, pre.buckets, k)

\* a removal from the front of a bucket that held a second entry
C5_Witness ==
    /\ op.name = "remove"
    /\ ret.kind = "Some"
    /\ \E i \in 1..PreCapacity :
           /\ Len(pre.buckets[i]) >= 2
           /\ pre.buckets[i][1][1] = op.key

\* C6: with at least one bucket, remove(k) of a key not stored returns None
\* and changes neither len nor the buckets.
C6_RemoveAbsent ==
    (op.name = "remove" /\ PreCapacity >= 1 /\ StoredValues(pre.buckets, op.key) = {}) =>
        /\ ret = None
        /\ len = pre.len
        /\ buckets = pre.buckets

\* a removal of an absent key whose bucket holds another key
C6_Witness ==
    /\ op.name = "remove"
    /\ PreCapacity >= 1
    /\ StoredValues(pre.buckets, op.key) = {}
    /\ pre.buckets[BucketIndex(hash, op.key, PreCapacity) + 1] # << >>

\* C7: after N inserts of pairwise distinct keys into a fresh table, len is N
\* and get returns the inserted value for each of the N keys, each stored once.
C7_DistinctInsertsKept ==
    (distinct /\ inserted) =>
        LET done == {k \in Keys : last[k] # None}
        IN  /\ len = Cardinality(done)
            /\ \A k \in done : /\ GetResult(hash, buckets, k) = last[k]
                               /\ Occurrences(buckets, k) = 1
            /\ SumOfBucketLens(buckets) = Cardinality(done)

\* three distinct inserts, each of which resized (1, 2, then 4 buckets)
C7_Witness ==
    /\ distinct
    /\ len >= 3
    /\ Capacity >= 4
    /\ Resized

\* C8: len is the sum of the buckets' entry counts; is_empty() exactly when
\* no bucket holds an entry.
C8_LenIsEntryCount ==
    /\ len = SumOfBucketLens(buckets)
    /\ IsEmpty(len) <=> (\A i \in 1..Capacity : buckets[i] = << >>)

\* a removal that left entries behind
C8_Witness ==
    /\ op.name = "remove"
    /\ ret.kind = "Some"
    /\ len >= 1

\* C9: each stored key has exactly one entry, in bucket hash(key) mod the
\* number of buckets.
C9_UniqueAndPlaced ==
    /\ \A k \in Keys : Occurrences(buckets, k) <= 1
    /\ \A i \in 1..Capacity : \A j \in 1..Len(buckets[i]) :
           BucketIndex(hash, buckets[i][j][1], Capacity) = i - 1

\* a resize that moved an entry to another bucket
C9_Witness ==
    /\ Resized
    /\ \E i \in 1..PreCapacity : \E j \in 1..Len(pre.buckets[i]) :
           BucketIndex(hash, pre.buckets[i][j][1], Capacity) # i - 1

\* C10 as stated: no call leaves fewer buckets than it found.
C10_NeverShrinks == Capacity >= PreCapacity

\* C10 amended: the only call that leaves fewer buckets than it found is an
\* insert into a table of len 0 with more than one bucket, which leaves 1; a
\* resize of a table with len > 0 leaves more buckets than before.
C10_ShrinksOnlyOnEmptyInsert ==
    /\ Capacity < PreCapacity => (op.name = "insert" /\ pre.len = 0 /\ Capacity = 1)
    /\ (Resized /\ pre.len > 0) => Capacity > PreCapacity
    /\ op.name \in {"remove", "get", "contains_key"} => Capacity = PreCapacity

\* an insert into an emptied table that took it back to one bucket
C10_Witness ==
    /\ op.name = "insert"
    /\ pre.len = 0
    /\ PreCapacity > 1
    /\ Capacity = 1

\* the <<key, value>> pairs a bucket holds
EntrySet(bucket) == {bucket[j] : j \in 1..Len(bucket)}

\* every entry is in the bucket (by position in the vector) it was in before the call
NoEntryMoved ==
    /\ Capacity = PreCapacity
    /\ \A i \in 1..Capacity : \A j \in 1..Len(buckets[i]) :
           \/ buckets[i][j][1] \in {e[1] : e \in EntrySet(pre.buckets[i])}
           \/ (op.name = "insert" /\ buckets[i][j][1] = op.key
                                  /\ StoredValues(pre.buckets, op.key) = {})

\* C11 as stated: once insert has returned, len <= capacity * LOAD_FACTOR.
C11_LoadFactorAfterInsert ==
    op.name = "insert" => len * LOAD_FACTOR_DEN <= Capacity * LOAD_FACTOR_NUM

\* C11 amended: once insert has returned, len exceeds capacity * LOAD_FACTOR
\* by at most one entry (len - 1 <= capacity * 3/4); the ratio itself holds
\* after an insert that resized a table of two or more entries.
C11_LoadFactorWithinOne ==
    op.name = "insert" =>
        /\ (len - 1) * LOAD_FACTOR_DEN <= Capacity * LOAD_FACTOR_NUM
        /\ (resized /\ pre.len >= 2) =>
               len * LOAD_FACTOR_DEN <= Capacity * LOAD_FACTOR_NUM

\* an insert that did not resize and left len above 3/4 of the capacity
C11_Witness ==
    /\ op.name = "insert"
    /\ ~resized
    /\ len * LOAD_FACTOR_DEN > Capacity * LOAD_FACTOR_NUM

\* C12: when insert resizes, the table has 1 bucket if len was 0 before the
\* call and 2 * len buckets otherwise (len before the call); the first insert
\* into a fresh table leaves 1 bucket.
C12_ResizeTarget ==
    /\ (op.name = "insert" /\ resized) =>
           Capacity = (IF pre.len = 0 THEN 1 ELSE 2 * pre.len)
    /\ (op.name = "insert" /\ PreCapacity = 0) => (resized /\ Capacity = 1)

\* a resize where twice the entry count is not twice the bucket count
C12_Witness ==
    /\ op.name = "insert"
    /\ resized
    /\ pre.len >= 3
    /\ Capacity # 2 * PreCapacity

\* C13: insert resizes exactly when len = 0 or 4 * len >= 3 * capacity before
\* the call, overwrites included; otherwise the number of buckets and the
\* bucket of every stored entry stay as they were.
C13_ResizeExactlyWhenLoaded ==
    op.name = "insert" =>
        /\ resized <=> (pre.len = 0 \/ 4 * pre.len >= 3 * PreCapacity)
        /\ (0 < pre.len /\ 4 * pre.len < 3 * PreCapacity) => NoEntryMoved

\* an overwrite at exactly 3/4 load, which resized
C13_Witness ==
    /\ op.name = "insert"
    /\ resized
    /\ ret.kind = "Some"
    /\ 4 * pre.len = 3 * PreCapacity

\* C14: with at least one bucket, remove, get and contains_key leave the
\* number of buckets unchanged and move no entry to another bucket.
C14_OnlyInsertResizes ==
    (op.name \in {"remove", "get", "contains_key"} /\ PreCapacity >= 1) =>
        /\ ~resized
        /\ NoEntryMoved

\* a removal that leaves entries in two or more buckets of a larger table
C14_Witness ==
    /\ op.name = "remove"
    /\ ret.kind = "Some"
    /\ Capacity >= 4
    /\ Cardinality({i \in 1..Capacity : buckets[i] # << >>}) >= 2

\* C15: with at least one bucket, get and contains_key change neither len nor
\* the buckets, and contains_key(k) is true exactly when get(k) is Some.
C15_LookupsArePure ==
    (op.name \in {"get", "contains_key"} /\ PreCapacity >= 1) =>
        /\ len = pre.len
        /\ buckets = pre.buckets
        /\ op.name = "contains_key" =>
               ret = Bool(GetResult(hash, buckets, op.key).kind = "Some")

\* contains_key answering false for an absent key whose bucket is not empty
C15_Witness ==
    /\ op.name = "contains_key"
    /\ ret = Bool(FALSE)
    /\ buckets[BucketIndex(hash, op.key, Capacity) + 1] # << >>

\* C16: remove of a stored key takes it out of its bucket by swap-with-last
\* and pop: the last entry takes the removed entry's place, the bucket keeps
\* its other entries, every other bucket is unchanged.
C16_SwapWithLastAndPop ==
    (op.name = "remove" /\ ret.kind = "Some") =>
        LET b == BucketIndex(hash, op.key, PreCapacity) + 1
            old == pre.buckets[b]
            new == buckets[b]
            n == Len(old)
            i == CHOOSE j \in 1..n : old[j][1] = op.key
        IN  /\ Capacity = PreCapacity
            /\ \A c \in 1..Capacity : c # b => buckets[c] = pre.buckets[c]
            /\ Len(new) = n - 1
            /\ EntrySet(new) = EntrySet(old) \ {<<op.key, ret.val>>}
            /\ i < n => new[i] = old[n]
            /\ \A j \in 1..(n - 1) : j # i => new[j] = old[j]

\* the first of three entries of a bucket removed
C16_Witness ==
    /\ op.name = "remove"
    /\ ret.kind = "Some"
    /\ \E b \in 1..PreCapacity :
           /\ Len(pre.buckets[b]) >= 3
           /\ pre.buckets[b][1][1] = op.key

\* C17: once insert has been called there is at least one bucket and no call
\* panics on a remainder by zero (a panic happens only on a table that never
\* saw an insert); 0 buckets implies len 0, and len is never negative.
C17_NoModuloZeroAfterInsert ==
    /\ inserted => (Capacity >= 1 /\ ret # Panic)
    /\ ret = Panic => (~inserted /\ PreCapacity = 0)
    /\ Capacity = 0 => len = 0
    /\ len >= 0

\* a remove on a table emptied after an insert: buckets remain, nothing panics
C17_Witness ==
    /\ inserted
    /\ op.name = "remove"
    /\ pre.len = 0
    /\ ret = None

\* C18: len never exceeds the number of buckets once insert has returned,
\* and so in every reachable state.
C18_LenAtMostCapacity == len <= Capacity

\* an insert that filled the table to one entry per bucket on average
C18_Witness ==
    /\ op.name = "insert"
    /\ len = Capacity
    /\ len >= 2

====
